---- MODULE Spec2Model ----
(***************************************************************************)
(* Model of the telemetry fault-prediction kernel of                       *)
(* src/services/dataService.ts: the statistics primitive getStats, the     *)
(* four indicators K1..K4, the risk formula, the classifiers, and the two  *)
(* point analyzers analyzePoint / analyzeMultiSignalPoint, driven by the   *)
(* per-index pass of the application's analyzedData timeline.              *)
(*                                                                         *)
(* NUMBERS.  Samples are integers.  A mean is kept as an exact reduced     *)
(* fraction.  Every other JavaScript number (std, k1..k4, scores) is a     *)
(* decimal with six fractional digits, a record [i |-> whole part,         *)
(* f |-> millionths], so that eps = 1e-6 is one unit of the last digit.    *)
(* Sums, differences and comparisons are exact; Math.sqrt and "/" floor    *)
(* their exact real result to six digits.  TLC integers are 32 bit wide,   *)
(* so products that exceed that width are formed digit by digit (MulDivMod). *)
(***************************************************************************)
EXTENDS Integers, Sequences, FiniteSets, TLC

\* ------------------------------------------------------------------------
\* Number representation
\* ------------------------------------------------------------------------

\* number of units of the last kept digit in 1.0
Unit == 1000 * 1000

Abs(x) == IF x < 0 THEN -x ELSE x

Min2(a, b) == IF a <= b THEN a ELSE b

Max2(a, b) == IF a >= b THEN a ELSE b

RECURSIVE Gcd(_, _)
Gcd(a, b) == IF b = 0 THEN a ELSE Gcd(b, a % b)

\* one digit of long division: qr = <<q, r>> becomes <<10 q + d, 10 r - d c>>
DivStep(qr, c) == <<10 * qr[1] + (10 * qr[2]) \div c, (10 * qr[2]) % c>>

\* <<q, r>> with a * Unit = q * c + r and 0 <= r < c, for 0 <= a < c < 2^31 / 10
MulDivMod(a, c) ==
  DivStep(DivStep(DivStep(DivStep(DivStep(DivStep(<<0, a>>, c), c), c), c), c), c)

\* a decimal number: value = i + f / Unit, 0 <= f < Unit
Num(i, f) == [i |-> i, f |-> f]

NumInt(n) == Num(n, 0)

NumAdd(x, y) ==
  LET f == x.f + y.f
  IN  IF f >= Unit THEN Num(x.i + y.i + 1, f - Unit) ELSE Num(x.i + y.i, f)

NumSub(x, y) ==
  LET f == x.f - y.f
  IN  IF f < 0 THEN Num(x.i - y.i - 1, f + Unit) ELSE Num(x.i - y.i, f)

NumLT(x, y) == x.i < y.i \/ (x.i = y.i /\ x.f < y.f)

NumGT(x, y) == NumLT(y, x)

NumLE(x, y) == ~NumLT(y, x)

NumMin(x, y) == IF NumLT(y, x) THEN y ELSE x

\* x / d for a number x >= 0 and a small positive integer d
NumDivInt(x, d) ==
  Num(x.i \div d, ((x.i % d) * Unit + x.f) \div d)

\* the decimal literal n / d times x (0.3 is 3/10, 0.05 is 1/20), n < d
NumTimes(n, d, x) ==
  Num((n * x.i) \div d, (((n * x.i) % d) * Unit + n * x.f) \div d)

\* a / c as a number, for integers a >= 0 and 0 < c < 2^31 / 10
NumQuot(a, c) == Num(a \div c, MulDivMod(a % c, c)[1])

\* (n / d) / (s / Unit) = n * Unit^2 / (d * s) in units, n >= 0, d, s > 0:
\* the three base-Unit digits of floor(n * Unit^2 / s), then divided by d
NumRatio(n, d, s) ==
  LET t2 == n \div s
      m1 == MulDivMod(n % s, s)
      m0 == MulDivMod(m1[2], s)
      t1 == m1[1]
      t0 == m0[1]
      \* (t2, t1, t0) / d, digit by digit
      u2 == t2 \div d
      c1 == (t2 % d) * Unit + t1
      u1 == c1 \div d
      c0 == (c1 % d) * Unit + t0
      u0 == c0 \div d
  IN  Num(u2 * Unit + u1, u0)

\* floor(sqrt(vn / vd)) continued by k more decimal digits: p is the root so
\* far and rem = 10^(2j) * vn - p^2 * vd its remainder
RECURSIVE SqrtDigits(_, _, _, _)
SqrtDigits(p, rem, vd, k) ==
  IF k = 0 THEN p
  ELSE LET Fits(d) == 2 * d * vd * p + ((d * d * vd + 9) \div 10) <= 10 * rem
           d  == CHOOSE e \in 0..9 : Fits(e) /\ (e = 9 \/ ~Fits(e + 1))
           nr == 10 * (10 * rem - 2 * d * vd * p) - d * d * vd
       IN  SqrtDigits(10 * p + d, nr, vd, k - 1)

\* floor(sqrt(vn / vd))
IntSqrt(vn, vd) ==
  CHOOSE p \in 0..(vn \div vd) : p * p * vd <= vn /\ vn < (p + 1) * (p + 1) * vd

\* Math.sqrt(vn / vd) in units (six fractional digits, floored)
SqrtUnits(vn, vd) ==
  LET p0 == IntSqrt(vn, vd)
  IN  SqrtDigits(p0, vn - p0 * p0 * vd, vd, 6)


\* ------------------------------------------------------------------------
\* Statistics primitive and the four indicators
\* ------------------------------------------------------------------------

\* eps = 1e-6, in units of the last kept digit
EPS == 1

\* a mean: the exact fraction num / den in lowest terms, den > 0
Frac(num, den) ==
  LET g == Gcd(Abs(num), den)
  IN  [num |-> num \div g, den |-> den \div g]

RECURSIVE SumSeq(_)
SumSeq(arr) == IF arr = <<>> THEN 0 ELSE arr[1] + SumSeq(Tail(arr))

\* arr.reduce((a, b) => a + Math.pow(b - mean, 2), 0) times arr.length^2
RECURSIVE SumSqDev(_, _, _)
SumSqDev(arr, n, sum) ==
  IF arr = <<>> THEN 0
  ELSE (n * arr[1] - sum) * (n * arr[1] - sum) + SumSqDev(Tail(arr), n, sum)

RECURSIVE MaxSeq(_)
MaxSeq(arr) == IF Len(arr) = 1 THEN arr[1] ELSE Max2(arr[1], MaxSeq(Tail(arr)))

RECURSIVE MinSeq(_)
MinSeq(arr) == IF Len(arr) = 1 THEN arr[1] ELSE Min2(arr[1], MinSeq(Tail(arr)))

\* the population variance, sum((b - mean)^2) / n
VariancePopulation(arr) ==
  LET n   == Len(arr)
      sum == SumSeq(arr)
  IN  Frac(SumSqDev(arr, n, sum), n * n * n)

\* the variance sum((b - mean)^2) / max(n - 1, 1) as an exact fraction
Variance(arr) ==
  LET n   == Len(arr)
      sum == SumSeq(arr)
  IN  Frac(SumSqDev(arr, n, sum), n * n * Max2(n - 1, 1))

\* getStats(arr).mean
Mean(arr) ==
  IF Len(arr) = 0 THEN Frac(0, 1) ELSE Frac(SumSeq(arr), Len(arr))

\* getStats(arr).std, in units
Std(arr) ==
  IF Len(arr) = 0 THEN 0
  ELSE LET variance == Variance(arr)
       IN  SqrtUnits(variance.num, variance.den)

getStats(arr) == [mean |-> Mean(arr), std |-> Std(arr)]

\* calculateK1Drift normalised by the spread of the short window
calculateK1DriftShortStd(shortVals, longVals) ==
  LET sMean == Mean(shortVals)
      lMean == Mean(longVals)
      sStd  == Std(shortVals)
  IN  NumRatio(Abs(sMean.num * lMean.den - lMean.num * sMean.den),
               sMean.den * lMean.den,
               sStd + EPS)

\* K1: Drift
calculateK1Drift(shortVals, longVals) ==
  LET sMean == Mean(shortVals)
      lMean == Mean(longVals)
      lStd  == Std(longVals)
  IN  NumRatio(Abs(sMean.num * lMean.den - lMean.num * sMean.den),
               sMean.den * lMean.den,
               lStd + EPS)

\* calculateK2Stability with the instability added instead of subtracted
calculateK2StabilityPlus(window) ==
  IF Len(window) < 2 THEN NumInt(1)
  ELSE LET stdDev      == Std(window)
           rVal        == MaxSeq(window) - MinSeq(window)
           instability == NumQuot(stdDev, rVal * Unit + EPS)
       IN  NumAdd(NumInt(1), NumMin(NumInt(1), instability))

\* calculateK2Stability normalising by half the range (the amplitude)
calculateK2StabilityHalfRange(window) ==
  IF Len(window) < 2 THEN NumInt(1)
  ELSE LET stdDev      == Std(window)
           rVal        == MaxSeq(window) - MinSeq(window)
           instability == NumQuot(2 * stdDev, rVal * Unit + 2 * EPS)
       IN  NumSub(NumInt(1), NumMin(NumInt(1), instability))

\* K2: Stability
calculateK2Stability(window) ==
  IF Len(window) < 2 THEN NumInt(1)
  ELSE LET stdDev      == Std(window)
           rVal        == MaxSeq(window) - MinSeq(window)
           instability == NumQuot(stdDev, rVal * Unit + EPS)
       IN  NumSub(NumInt(1), NumMin(NumInt(1), instability))

\* an optional parameter or field: Null when it is null / undefined, else
\* the one-element tuple Some(v)
Null == <<>>

Some(v) == <<v>>

\* K3Loop counting every limit a value breaks
RECURSIVE K3LoopPerLimit(_, _, _, _, _, _)
K3LoopPerLimit(values, minVal, maxVal, maxDerivative, prev, hits) ==
  IF values = <<>> THEN hits
  ELSE LET v == values[1]
           below == IF minVal # Null /\ v < minVal[1] THEN 1 ELSE 0
           above == IF maxVal # Null /\ v > maxVal[1] THEN 1 ELSE 0
           steep == IF prev # Null /\ maxDerivative # Null
                       /\ Abs(v - prev[1]) > maxDerivative[1] THEN 1 ELSE 0
       IN  K3LoopPerLimit(Tail(values), minVal, maxVal, maxDerivative, Some(v),
                          hits + below + above + steep)

\* K3: Boundary; hits and prev are the loop's running variables
RECURSIVE K3Loop(_, _, _, _, _, _)
K3Loop(values, minVal, maxVal, maxDerivative, prev, hits) ==
  IF values = <<>> THEN hits
  ELSE LET v == values[1]
           violated ==
             \/ (minVal # Null /\ v < minVal[1])
             \/ (maxVal # Null /\ v > maxVal[1])
             \/ (prev # Null /\ maxDerivative # Null
                 /\ Abs(v - prev[1]) > maxDerivative[1])
       IN  K3Loop(Tail(values), minVal, maxVal, maxDerivative, Some(v),
                  IF violated THEN hits + 1 ELSE hits)

\* calculateK3Boundary with prev starting at 0 instead of null
calculateK3BoundaryPrevZero(values, minVal, maxVal, maxDerivative) ==
  IF Len(values) = 0 THEN 0
  ELSE K3Loop(values, minVal, maxVal, maxDerivative, Some(0), 0)

calculateK3Boundary(values, minVal, maxVal, maxDerivative) ==
  IF Len(values) = 0 THEN 0
  ELSE K3Loop(values, minVal, maxVal, maxDerivative, Null, 0)

\* number of i in 1 .. length-1 with states[i] !== states[i - 1]
RECURSIVE Switches(_)
Switches(states) ==
  IF Len(states) < 2 THEN 0
  ELSE (IF states[2] # states[1] THEN 1 ELSE 0) + Switches(Tail(states))

\* calculateK4OscillationDynamic with a value equal to the reference in state 1
calculateK4OscillationInclusive(shortWindow, longWindow) ==
  IF Len(shortWindow) < 2 \/ Len(longWindow) = 0 THEN NumInt(0)
  ELSE LET muRef  == Mean(longWindow)
           states == [j \in 1..Len(shortWindow) |->
                        IF shortWindow[j] * muRef.den >= muRef.num THEN 1 ELSE 0]
           switches    == Switches(states)
           maxSwitches == Len(states) - 1
       IN  IF maxSwitches > 0 THEN NumQuot(switches, maxSwitches) ELSE NumInt(0)

\* K4: Oscillation
calculateK4OscillationDynamic(shortWindow, longWindow) ==
  IF Len(shortWindow) < 2 \/ Len(longWindow) = 0 THEN NumInt(0)
  ELSE LET muRef  == Mean(longWindow)
           states == [j \in 1..Len(shortWindow) |->
                        IF shortWindow[j] * muRef.den > muRef.num THEN 1 ELSE 0]
           switches    == Switches(states)
           maxSwitches == Len(states) - 1
       IN  IF maxSwitches > 0 THEN NumQuot(switches, maxSwitches) ELSE NumInt(0)

\* calculateRiskScore weighting the stability of the magnitude signal itself
calculateRiskScoreStability(k1_rssi, k1_latency, k1_txerr, k2_rssi, k2_latency, k2_txerr, k3_latency, k4_latency, k4_txerr) ==
  NumAdd(NumAdd(NumAdd(NumAdd(NumAdd(
    NumTimes(3, 10, k2_rssi),
    NumTimes(3, 10, NumSub(NumInt(1), k2_latency))),
    NumTimes(1, 10, NumSub(NumInt(1), k2_txerr))),
    NumTimes(1, 20, NumAdd(NumAdd(k1_rssi, k1_latency), k1_txerr))),
    NumTimes(1, 20, NumAdd(k4_latency, k4_txerr))),
    NumTimes(1, 50, NumInt(k3_latency)))

\* calculateRiskScore crediting drift instead of charging it
calculateRiskScoreDriftCredit(k1_rssi, k1_latency, k1_txerr, k2_rssi, k2_latency, k2_txerr, k3_latency, k4_latency, k4_txerr) ==
  NumSub(NumAdd(NumAdd(NumAdd(NumAdd(
    NumTimes(3, 10, NumSub(NumInt(1), k2_rssi)),
    NumTimes(3, 10, NumSub(NumInt(1), k2_latency))),
    NumTimes(1, 10, NumSub(NumInt(1), k2_txerr))),
    NumTimes(1, 20, NumAdd(k4_latency, k4_txerr))),
    NumTimes(1, 50, NumInt(k3_latency))),
    NumTimes(1, 20, NumAdd(NumAdd(k1_rssi, k1_latency), k1_txerr)))

\* Risk Formula
calculateRiskScore(k1_rssi, k1_latency, k1_txerr, k2_rssi, k2_latency, k2_txerr, k3_latency, k4_latency, k4_txerr) ==
  NumAdd(NumAdd(NumAdd(NumAdd(NumAdd(
    NumTimes(3, 10, NumSub(NumInt(1), k2_rssi)),
    NumTimes(3, 10, NumSub(NumInt(1), k2_latency))),
    NumTimes(1, 10, NumSub(NumInt(1), k2_txerr))),
    NumTimes(1, 20, NumAdd(NumAdd(k1_rssi, k1_latency), k1_txerr))),
    NumTimes(1, 20, NumAdd(k4_latency, k4_txerr))),
    NumTimes(1, 50, NumInt(k3_latency)))

\* judgeDrift with a score on a threshold left in the milder class
judgeDriftInclusive(score) ==
  IF NumLE(score, NumInt(1)) THEN "STABLE"
  ELSE IF NumLE(score, NumInt(2)) THEN "MILD_DRIFT"
  ELSE IF NumLE(score, NumInt(3)) THEN "MODERATE_DRIFT"
  ELSE "SEVERE_DRIFT"

judgeDrift(score) ==
  IF NumLT(score, NumInt(1)) THEN "STABLE"
  ELSE IF NumLT(score, NumInt(2)) THEN "MILD_DRIFT"
  ELSE IF NumLT(score, NumInt(3)) THEN "MODERATE_DRIFT"
  ELSE "SEVERE_DRIFT"

\* judgeStability with a score on a threshold put in the better class
judgeStabilityInclusive(k2_score) ==
  IF NumLE(Num(0, 900000), k2_score) THEN "GOOD"
  ELSE IF NumLE(Num(0, 700000), k2_score) THEN "MARGINAL"
  ELSE "UNSTABLE"

judgeStability(k2_score) ==
  IF NumGT(k2_score, Num(0, 900000)) THEN "GOOD"
  ELSE IF NumGT(k2_score, Num(0, 700000)) THEN "MARGINAL"
  ELSE "UNSTABLE"

\* judgeOscillation with a score on a threshold left in the lower class
judgeOscillationInclusive(k4_score) ==
  IF NumLE(k4_score, Num(0, 200000)) THEN "LOW"
  ELSE IF NumLE(k4_score, Num(0, 500000)) THEN "MEDIUM"
  ELSE "HIGH"

judgeOscillation(k4_score) ==
  IF NumLT(k4_score, Num(0, 200000)) THEN "LOW"
  ELSE IF NumLT(k4_score, Num(0, 500000)) THEN "MEDIUM"
  ELSE "HIGH"

\* RiskLevel with the MEDIUM threshold at 0.5
RiskLevelHalf(score) ==
  IF NumGT(score, Num(0, 800000)) THEN "HIGH"
  ELSE IF NumGT(score, Num(0, 500000)) THEN "MEDIUM"
  ELSE "LOW"

\* Normalize Risk to RiskLevel
RiskLevel(score) ==
  IF NumGT(score, Num(0, 800000)) THEN "HIGH"
  ELSE IF NumGT(score, Num(0, 400000)) THEN "MEDIUM"
  ELSE "LOW"


\* ------------------------------------------------------------------------
\* Point analyzers
\* ------------------------------------------------------------------------

\* the analyzer's "no result"
NoResult == [none |-> TRUE]

\* a ?? b
Coalesce(a, b) == IF a # Null THEN a ELSE b

\* series.slice(start, end) for start >= 0, end >= 0
Slice(series, start, end) ==
  LET e == Min2(end, Len(series))
  IN  IF start >= e THEN <<>> ELSE SubSeq(series, start + 1, e)

\* primaryKey.includes(word), for the keys of PrimaryKeys
Includes(primaryKey, word) ==
  word \in (CASE primaryKey = "latency_p95"    -> {"latency"}
              [] primaryKey = "loss_rate"      -> {"loss"}
              [] primaryKey = "retry_rate"     -> {"retry"}
              [] primaryKey = "tx_err_latency" -> {"err", "latency"}
              [] OTHER                         -> {})

\* fullData is [isObject |-> typeof element === 'object', items |-> the array]
isObjectArray(fullData) == Len(fullData.items) > 0 /\ fullData.isObject

\* rssiSeries with || in place of ??: a present 0 falls through to the next field
rssiSeriesFalsy(fullData) ==
  IF isObjectArray(fullData)
  THEN [j \in 1..Len(fullData.items) |->
          LET d == fullData.items[j]
              Or(a, b) == IF a # Null /\ a # Some(0) THEN a ELSE b
          IN  Or(d.rssi_dBm, Or(d.rx_power_dBm, Or(d.rsrp_dBm, Some(-60))))[1]]
  ELSE fullData.items

rssiSeries(fullData) ==
  IF isObjectArray(fullData)
  THEN [j \in 1..Len(fullData.items) |->
          LET d == fullData.items[j]
          IN  Coalesce(d.rssi_dBm,
                Coalesce(d.rx_power_dBm, Coalesce(d.rsrp_dBm, Some(-60))))[1]]
  ELSE fullData.items

\* latencySeries defaulting an absent latency to 75
latencySeriesDefault75(fullData) ==
  IF isObjectArray(fullData)
  THEN [j \in 1..Len(fullData.items) |->
          Coalesce(fullData.items[j].latency_p95, Some(75))[1]]
  ELSE fullData.items

latencySeries(fullData) ==
  IF isObjectArray(fullData)
  THEN [j \in 1..Len(fullData.items) |->
          Coalesce(fullData.items[j].latency_p95, Some(20))[1]]
  ELSE fullData.items

txErrSeries(fullData) ==
  IF isObjectArray(fullData)
  THEN [j \in 1..Len(fullData.items) |->
          LET d == fullData.items[j]
          IN  Coalesce(d.loss_rate, Coalesce(d.retry_rate, Some(0)))[1]]
  ELSE [j \in 1..Len(fullData.items) |-> 0]

\* targetSeries testing the error-rate words before 'latency'
targetSeriesErrorFirst(fullData, primaryKey) ==
  IF Includes(primaryKey, "loss") \/ Includes(primaryKey, "err")
     \/ Includes(primaryKey, "retry") THEN txErrSeries(fullData)
  ELSE IF Includes(primaryKey, "latency") THEN latencySeries(fullData)
  ELSE IF ~isObjectArray(fullData) THEN fullData.items
  ELSE rssiSeries(fullData)

\* Determine current active series
targetSeries(fullData, primaryKey) ==
  IF Includes(primaryKey, "latency") THEN latencySeries(fullData)
  ELSE IF Includes(primaryKey, "loss") \/ Includes(primaryKey, "err")
          \/ Includes(primaryKey, "retry") THEN txErrSeries(fullData)
  ELSE IF ~isObjectArray(fullData) THEN fullData.items
  ELSE rssiSeries(fullData)

\* getWindows with each window starting one sample too early
getWindowsOffByOne(series, currentIndex, longSize, midSize, shortSize) ==
  LET longStart  == Max2(0, currentIndex - longSize)
      midStart   == Max2(0, currentIndex - midSize)
      shortStart == Max2(0, currentIndex - shortSize)
  IN  [long    |-> Slice(series, longStart, currentIndex + 1),
       mid     |-> Slice(series, midStart, currentIndex + 1),
       short   |-> Slice(series, shortStart, currentIndex + 1),
       current |-> Slice(series, currentIndex, currentIndex + 1)]

\* getWindows with windows that run one sample past currentIndex
getWindowsLookahead(series, currentIndex, longSize, midSize, shortSize) ==
  LET longStart  == Max2(0, currentIndex - longSize + 1)
      midStart   == Max2(0, currentIndex - midSize + 1)
      shortStart == Max2(0, currentIndex - shortSize + 1)
  IN  [long    |-> Slice(series, longStart, currentIndex + 2),
       mid     |-> Slice(series, midStart, currentIndex + 2),
       short   |-> Slice(series, shortStart, currentIndex + 2),
       current |-> Slice(series, currentIndex, currentIndex + 1)]

\* getWindows whose current holds the previous sample too
getWindowsCurrentPair(series, currentIndex, longSize, midSize, shortSize) ==
  LET longStart  == Max2(0, currentIndex - longSize + 1)
      midStart   == Max2(0, currentIndex - midSize + 1)
      shortStart == Max2(0, currentIndex - shortSize + 1)
  IN  [long    |-> Slice(series, longStart, currentIndex + 1),
       mid     |-> Slice(series, midStart, currentIndex + 1),
       short   |-> Slice(series, shortStart, currentIndex + 1),
       current |-> Slice(series, Max2(0, currentIndex - 1), currentIndex + 1)]

\* Helper to extract windows
getWindows(series, currentIndex, longSize, midSize, shortSize) ==
  LET longStart  == Max2(0, currentIndex - longSize + 1)
      midStart   == Max2(0, currentIndex - midSize + 1)
      shortStart == Max2(0, currentIndex - shortSize + 1)
  IN  [long    |-> Slice(series, longStart, currentIndex + 1),
       mid     |-> Slice(series, midStart, currentIndex + 1),
       short   |-> Slice(series, shortStart, currentIndex + 1),
       current |-> Slice(series, currentIndex, currentIndex + 1)]

\* isRejected that also turns away the index equal to shortSize
isRejectedInclusive(length, currentIndex, shortSize) ==
  \/ currentIndex < 0 \/ currentIndex >= length
  \/ currentIndex <= shortSize

\* Basic validation: the two early "return null"
isRejected(length, currentIndex, shortSize) ==
  \/ currentIndex < 0 \/ currentIndex >= length
  \/ currentIndex < shortSize

\* riskScoreRaw fed the magnitude signal's oscillation in place of the latency's
riskScoreRawK4Rssi(fullData, currentIndex, longSize, midSize, shortSize) ==
  LET wRssi == getWindows(rssiSeries(fullData), currentIndex, longSize, midSize, shortSize)
      wLat  == getWindows(latencySeries(fullData), currentIndex, longSize, midSize, shortSize)
      wTx   == getWindows(txErrSeries(fullData), currentIndex, longSize, midSize, shortSize)
  IN  calculateRiskScore(calculateK1Drift(wRssi.short, wRssi.long),
                         calculateK1Drift(wLat.short, wLat.long),
                         calculateK1Drift(wTx.short, wTx.long),
                         calculateK2Stability(wRssi.mid),
                         calculateK2Stability(wLat.mid),
                         calculateK2Stability(wTx.mid),
                         calculateK3Boundary(wLat.current, Some(0), Some(70), Some(30)),
                         calculateK4OscillationDynamic(wRssi.short, wRssi.long),
                         calculateK4OscillationDynamic(wTx.short, wTx.long))

\* Total Risk of the three role series at currentIndex
riskScoreRaw(fullData, currentIndex, longSize, midSize, shortSize) ==
  LET wRssi == getWindows(rssiSeries(fullData), currentIndex, longSize, midSize, shortSize)
      wLat  == getWindows(latencySeries(fullData), currentIndex, longSize, midSize, shortSize)
      wTx   == getWindows(txErrSeries(fullData), currentIndex, longSize, midSize, shortSize)
      k1_rssi  == calculateK1Drift(wRssi.short, wRssi.long)
      k1_lat   == calculateK1Drift(wLat.short, wLat.long)
      k1_tx    == calculateK1Drift(wTx.short, wTx.long)
      k2_rssi  == calculateK2Stability(wRssi.mid)
      k2_lat   == calculateK2Stability(wLat.mid)
      k2_tx    == calculateK2Stability(wTx.mid)
      hits_lat == calculateK3Boundary(wLat.current, Some(0), Some(70), Some(30))
      k4_lat   == calculateK4OscillationDynamic(wLat.short, wLat.long)
      k4_tx    == calculateK4OscillationDynamic(wTx.short, wTx.long)
  IN  calculateRiskScore(k1_rssi, k1_lat, k1_tx,
                         k2_rssi, k2_lat, k2_tx,
                         hits_lat,
                         k4_lat, k4_tx)

\* one call of analyzePoint: what it returns and, when it gets that far, its
\* local targetWindows
analyzePointRun(fullData, currentIndex, longSize, midSize, shortSize, primaryKey) ==
  LET target == targetSeries(fullData, primaryKey)
  IN
  IF isRejected(Len(target), currentIndex, shortSize)
  THEN [result |-> NoResult, targetWindows |-> NoResult]
  ELSE
    LET risk == riskScoreRaw(fullData, currentIndex, longSize, midSize, shortSize)
        \* K-values for the TARGET series
        targetWindows  == getWindows(target, currentIndex, longSize, midSize, shortSize)
        driftScore     == calculateK1Drift(targetWindows.short, targetWindows.long)
        stabilityScore == calculateK2Stability(targetWindows.mid)
        oscillationVal == calculateK4OscillationDynamic(targetWindows.short, targetWindows.long)
        boundaryHits   == calculateK3Boundary(targetWindows.current, Null, Some(30), Some(20))
    IN  [result |->
           [driftScore       |-> driftScore,
            driftStatus      |-> judgeDrift(driftScore),
            stabilityScore   |-> stabilityScore,
            stabilityStatus  |-> judgeStability(stabilityScore),
            boundaryStatus   |-> IF boundaryHits > 0 THEN "YES" ELSE "NO",
            oscillationLevel |-> judgeOscillation(oscillationVal),
            overallRisk      |-> RiskLevel(risk),
            meanLong         |-> Mean(targetWindows.long),
            meanMid          |-> Mean(targetWindows.mid),
            meanShort        |-> Mean(targetWindows.short),
            k1               |-> driftScore,
            k2               |-> stabilityScore,
            k3               |-> boundaryHits,
            k4               |-> oscillationVal,
            riskScore        |-> risk],
         targetWindows |-> targetWindows]

analyzePoint(fullData, currentIndex, longSize, midSize, shortSize, primaryKey) ==
  analyzePointRun(fullData, currentIndex, longSize, midSize, shortSize, primaryKey).result

\* fullDataAfterCall with the long window cut out of a number[] series in
\* place (splice where the code has slice)
fullDataAfterCallSplice(fullData, currentIndex, longSize, midSize, shortSize) ==
  IF isObjectArray(fullData) \/ isRejected(Len(fullData.items), currentIndex, shortSize)
  THEN fullData
  ELSE LET longStart == Max2(0, currentIndex - longSize + 1)
       IN  [fullData EXCEPT !.items = Slice(@, 0, longStart) \o Slice(@, currentIndex + 1, Len(@))]

\* the caller's array after a call of analyzePoint or analyzeMultiSignalPoint:
\* the series are read with map, slice, reduce and spread only, none of
\* which writes to the array
fullDataAfterCall(fullData, currentIndex, longSize, midSize, shortSize) == fullData

\* the combined risk taken over from the RSSI sub-result
multiRiskCopied(resRssi, resLat, resTx) == resRssi.riskScore

\* multiRisk with the boundary count of the RSSI sub-result
multiRiskK3Rssi(resRssi, resLat, resTx) ==
  calculateRiskScore(resRssi.k1, resLat.k1, resTx.k1,
                     resRssi.k2, resLat.k2, resTx.k2,
                     resRssi.k3,
                     resLat.k4, resTx.k4)

\* 4. Compute Combined Risk Score
multiRisk(resRssi, resLat, resTx) ==
  calculateRiskScore(resRssi.k1, resLat.k1, resTx.k1,
                     resRssi.k2, resLat.k2, resTx.k2,
                     resLat.k3,
                     resLat.k4, resTx.k4)

\* multiResult without the two averaged summary scores
multiResultUnaveraged(resRssi, resLat, resTx) ==
  LET risk == multiRisk(resRssi, resLat, resTx)
  IN  [signals |-> [RSSI |-> resRssi, Latency |-> resLat, TxErr |-> resTx]]
      @@ [resRssi EXCEPT !.overallRisk = RiskLevel(risk), !.riskScore = risk]

\* multiResult with the two statuses taken from the averaged summary scores
multiResultRejudged(resRssi, resLat, resTx) ==
  LET risk  == multiRisk(resRssi, resLat, resTx)
      drift == NumDivInt(NumAdd(NumAdd(resRssi.driftScore, resLat.driftScore),
                                resTx.driftScore), 3)
      stab  == NumDivInt(NumAdd(NumAdd(resRssi.stabilityScore, resLat.stabilityScore),
                                resTx.stabilityScore), 3)
  IN  [signals |-> [RSSI |-> resRssi, Latency |-> resLat, TxErr |-> resTx]]
      @@ [resRssi EXCEPT
            !.driftScore = drift,
            !.driftStatus = judgeDrift(drift),
            !.stabilityScore = stab,
            !.stabilityStatus = judgeStability(stab),
            !.overallRisk = RiskLevel(risk),
            !.riskScore = risk]

\* multiResult spreading the latency sub-result as the base record
multiResultLatencyBase(resRssi, resLat, resTx) ==
  LET risk == multiRisk(resRssi, resLat, resTx)
  IN  [signals |-> [RSSI |-> resRssi, Latency |-> resLat, TxErr |-> resTx]]
      @@ [resLat EXCEPT
            !.driftScore = NumDivInt(NumAdd(NumAdd(resRssi.driftScore, resLat.driftScore),
                                            resTx.driftScore), 3),
            !.stabilityScore = NumDivInt(NumAdd(NumAdd(resRssi.stabilityScore,
                                                       resLat.stabilityScore),
                                                resTx.stabilityScore), 3),
            !.overallRisk = RiskLevel(risk),
            !.riskScore = risk]

\* the record analyzeMultiSignalPoint returns: resRssi spread, then overwritten
multiResult(resRssi, resLat, resTx) ==
  LET risk == multiRisk(resRssi, resLat, resTx)
  IN  [signals |-> [RSSI |-> resRssi, Latency |-> resLat, TxErr |-> resTx]]
      @@ [resRssi EXCEPT
            !.driftScore = NumDivInt(NumAdd(NumAdd(resRssi.driftScore, resLat.driftScore),
                                            resTx.driftScore), 3),
            !.stabilityScore = NumDivInt(NumAdd(NumAdd(resRssi.stabilityScore,
                                                       resLat.stabilityScore),
                                                resTx.stabilityScore), 3),
            !.overallRisk = RiskLevel(risk),
            !.riskScore = risk]

\* one call of analyzeMultiSignalPoint: what it returns and the targetWindows
\* of its three analyzePoint calls
analyzeMultiSignalPointRun(fullData, currentIndex, longSize, midSize, shortSize) ==
  LET runRssi == analyzePointRun(fullData, currentIndex, longSize, midSize, shortSize,
                                 "rssi_dBm")
      runLat  == analyzePointRun(fullData, currentIndex, longSize, midSize, shortSize,
                                 "latency_p95")
      runTx   == analyzePointRun(fullData, currentIndex, longSize, midSize, shortSize,
                                 "loss_rate")
      resRssi == runRssi.result
      resLat  == runLat.result
      resTx   == runTx.result
  IN  [result |->
         IF resRssi = NoResult \/ resLat = NoResult \/ resTx = NoResult THEN NoResult
         ELSE multiResult(resRssi, resLat, resTx),
       targetWindows |->
         [RSSI    |-> runRssi.targetWindows,
          Latency |-> runLat.targetWindows,
          TxErr   |-> runTx.targetWindows]]

\* Multi-Signal Analysis Function
analyzeMultiSignalPoint(fullData, currentIndex, longSize, midSize, shortSize) ==
  analyzeMultiSignalPointRun(fullData, currentIndex, longSize, midSize, shortSize).result

\* ------------------------------------------------------------------------
\* Bounds of the model
\* ------------------------------------------------------------------------

\* longest series analysed
MaxLen == 3

\* largest window length configured
MaxWindow == 3

\* longest short / long window handed to an indicator on its own
MaxShort == 3

MaxLong == 5

\* longest short window whose oscillation is measured on its own
MaxOsc == 6

\* largest whole part of a score handed to a classifier
MaxScore == 3

\* longest sequence handed to the boundary count on its own
MaxK3Len == 3

\* most analyzer calls made between a call and its repetition
MaxCalls == 1

\* longest series analysed with window lengths of any sign
MaxProbe == 2

\* longest series analysed with samples of every field pattern
MaxRoleLen == 3

\* longest numeric series whose drift is analysed
MaxDriftLen == 4

\* ------------------------------------------------------------------------
\* Inputs
\* ------------------------------------------------------------------------

\* a TelemetryPoint, restricted to the six fields the analyzer reads
Point(rssi, rx, rsrp, lat, loss, retry) ==
  [rssi_dBm |-> rssi, rx_power_dBm |-> rx, rsrp_dBm |-> rsrp,
   latency_p95 |-> lat, loss_rate |-> loss, retry_rate |-> retry]

\* three samples whose role values (magnitude, latency, error rate) are
\* (-59, 31, 0), (-61, 71, 2) and, all by default, (-60, 20, 0)
Points ==
  { Point(Some(-59), Some(-58), Null, Some(31), Some(0), Some(1)),
    Point(Null, Some(-61), Some(-62), Some(71), Null, Some(2)),
    Point(Null, Null, Null, Null, Null, Null) }

Numbers == {0, 31}

\* all sequences over S of length 0 .. n
RECURSIVE SeqsUpTo(_, _)
SeqsUpTo(S, n) ==
  IF n = 0 THEN {<<>>}
  ELSE LET shorter == SeqsUpTo(S, n - 1)
       IN  shorter \cup {Append(q, e) : q \in {r \in shorter : Len(r) = n - 1}, e \in S}

\* TelemetryPoint[] series (dataToSort); the empty array has no element to type
ObjectSeries ==
  {[isObject |-> TRUE, items |-> q] : q \in SeqsUpTo(Points, MaxLen) \ {<<>>}}

\* number[] series (numericSeries)
NumberSeries ==
  {[isObject |-> FALSE, items |-> q] : q \in SeqsUpTo(Numbers, MaxLen)}

\* the window lengths configured: the two smallest and the largest
WindowSizes == {1, 2, MaxWindow}

\* sample values of the windows handed directly to an indicator
ShortValues == {10, 12, 15}

LongValues == {10, 15}

KernelArgs ==
  {[shortVals |-> sv, longVals |-> lv] :
     sv \in SeqsUpTo(ShortValues, MaxShort), lv \in SeqsUpTo(LongValues, MaxLong)}

PrimaryKeys == {"rssi_dBm", "latency_p95", "loss_rate"}

\* ------------------------------------------------------------------------
\* State
\* ------------------------------------------------------------------------

VARIABLES
  fullData,      \* the series handed to the analyzer (dataToSort / numericSeries)
  windowLong,    \* the three configured window lengths
  windowMid,
  windowShort,
  primaryKey,    \* currentMetrics[0]
  riskMode,      \* "single" or "multi"
  analyzedData,  \* index -> Pending, or the analyzer call made for it: its
                 \* result and the targetWindows it extracted
  kargs,         \* windows handed directly to an indicator
  kout           \* the indicator called on kargs and what it returned

vars == <<fullData, windowLong, windowMid, windowShort, primaryKey, riskMode,
          analyzedData, kargs, kout>>

config == <<fullData, windowLong, windowMid, windowShort, primaryKey, riskMode>>

\* not analysed yet
Pending == [pending |-> TRUE]

\* the indices probed: those of the timeline, 0 .. n-1, and the two
\* out-of-range neighbours -1 and n
Indices(data) == -1..Len(data.items)

NoKernelCall == [fn |-> "none"]

NoKernelArgs == [shortVals |-> <<>>, longVals |-> <<>>]

Init ==
  /\ \/ fullData \in ObjectSeries
     \/ fullData \in NumberSeries
  /\ windowLong \in WindowSizes
  /\ windowMid \in WindowSizes
  /\ windowShort \in WindowSizes
  /\ riskMode \in {"single", "multi"}
  /\ primaryKey \in (IF riskMode = "multi" THEN {"rssi_dBm"} ELSE PrimaryKeys)
  /\ riskMode = "multi" => fullData.isObject
  /\ analyzedData = [idx \in Indices(fullData) |-> Pending]
  /\ kargs = NoKernelArgs
  /\ kout = NoKernelCall

\* the reference pass analyses the indices in ascending order
NextIndex == CHOOSE idx \in Indices(fullData) :
               /\ analyzedData[idx] = Pending
               /\ \A j \in Indices(fullData) : j < idx => analyzedData[j] # Pending

AnalyzeSingle(idx) ==
  /\ riskMode = "single"
  /\ analyzedData[idx] = Pending
  /\ idx = NextIndex
  /\ analyzedData' = [analyzedData EXCEPT ![idx] =
       analyzePointRun(fullData, idx, windowLong, windowMid, windowShort, primaryKey)]
  /\ UNCHANGED <<config, kargs, kout>>

AnalyzeMulti(idx) ==
  /\ riskMode = "multi"
  /\ analyzedData[idx] = Pending
  /\ idx = NextIndex
  /\ analyzedData' = [analyzedData EXCEPT ![idx] =
       analyzeMultiSignalPointRun(fullData, idx, windowLong, windowMid, windowShort)]
  /\ UNCHANGED <<config, kargs, kout>>

Next ==
  \/ \E idx \in Indices(fullData) : AnalyzeSingle(idx)
  \/ \E idx \in Indices(fullData) : AnalyzeMulti(idx)

Spec == Init /\ [][Next]_vars

\* ------------------------------------------------------------------------
\* The indicators called on their own
\* ------------------------------------------------------------------------

InitKernel ==
  /\ fullData = [isObject |-> FALSE, items |-> <<>>]
  /\ windowLong = 1
  /\ windowMid = 1
  /\ windowShort = 1
  /\ riskMode = "single"
  /\ primaryKey = "rssi_dBm"
  /\ analyzedData = [idx \in Indices(fullData) |-> Pending]
  /\ kargs \in KernelArgs
  /\ kout = NoKernelCall

CallK1 ==
  /\ kout = NoKernelCall
  /\ kout' = [fn |-> "calculateK1Drift",
              value |-> calculateK1Drift(kargs.shortVals, kargs.longVals)]
  /\ UNCHANGED <<config, analyzedData, kargs>>

CallK2(window) ==
  /\ kout = NoKernelCall
  /\ kout' = [fn |-> "calculateK2Stability", window |-> window,
              value |-> calculateK2Stability(window)]
  /\ UNCHANGED <<config, analyzedData, kargs>>

NextKernel ==
  \/ CallK1
  \/ \E window \in {kargs.shortVals, kargs.longVals} : CallK2(window)

SpecKernel == InitKernel /\ [][NextKernel]_vars

\* ------------------------------------------------------------------------
\* Oscillation and the classifiers called on their own
\* ------------------------------------------------------------------------

\* the analyzer's variables while only indicators and classifiers are called
AnalyzerIdle ==
  /\ fullData = [isObject |-> FALSE, items |-> <<>>]
  /\ windowLong = 1
  /\ windowMid = 1
  /\ windowShort = 1
  /\ riskMode = "single"
  /\ primaryKey = "rssi_dBm"
  /\ analyzedData = [idx \in Indices(fullData) |-> Pending]

\* samples on either side of, and on, the reference of the long window
OscValues == {10, 15}

OscArgs ==
  {[shortVals |-> sv, longVals |-> lv] :
     sv \in SeqsUpTo(OscValues, MaxOsc), lv \in SeqsUpTo(OscValues, MaxShort)}

\* fractional parts on, just below and just above the classifiers' thresholds
ScoreFractions ==
  {0, 1, 199999, 200000, 200001, 499999, 500000, 500001,
   699999, 700000, 700001, 899999, 900000, 900001, 999999}

\* scores handed to a classifier
ScoreGrid == {Num(i, f) : i \in -1..MaxScore, f \in ScoreFractions}

\* a score handed directly to a classifier
ScoreArgs == {[score |-> score] : score \in ScoreGrid}

InitOscillation ==
  /\ AnalyzerIdle
  /\ \/ kargs \in OscArgs
     \/ kargs \in ScoreArgs
  /\ kout = NoKernelCall

CallK4 ==
  /\ kout = NoKernelCall
  /\ "shortVals" \in DOMAIN kargs
  /\ kout' = [fn |-> "calculateK4OscillationDynamic",
              value |-> calculateK4OscillationDynamic(kargs.shortVals, kargs.longVals),
              level |-> judgeOscillation(
                          calculateK4OscillationDynamic(kargs.shortVals, kargs.longVals))]
  /\ UNCHANGED <<config, analyzedData, kargs>>

CallJudgeOscillation ==
  /\ kout = NoKernelCall
  /\ "score" \in DOMAIN kargs
  /\ kout' = [fn |-> "judgeOscillation", level |-> judgeOscillation(kargs.score)]
  /\ UNCHANGED <<config, analyzedData, kargs>>

NextOscillation ==
  \/ CallK4
  \/ CallJudgeOscillation

SpecOscillation == InitOscillation /\ [][NextOscillation]_vars

\* ------------------------------------------------------------------------
\* The boundary count called on its own, on a window and on its extensions
\* ------------------------------------------------------------------------

\* values below, on and above the limits 0 and 70, with steps of 1 and more
K3Values == {-1, 0, 1, 2, 70, 72}

K3Args ==
  {[values |-> vs, minVal |-> lo, maxVal |-> hi, maxDerivative |-> dv] :
     vs \in SeqsUpTo(K3Values, MaxK3Len),
     lo \in {Null, Some(0)}, hi \in {Null, Some(70)}, dv \in {Null, Some(1)}}

\* the record of one calculateK3Boundary call on kargs: before is the count
\* of the previous call, grown tells how the window was extended since
K3Call(args, grown, before) ==
  [fn |-> "calculateK3Boundary",
   value |-> calculateK3Boundary(args.values, args.minVal, args.maxVal, args.maxDerivative),
   grown |-> grown,
   before |-> before]

InitBoundary ==
  /\ AnalyzerIdle
  /\ kargs \in K3Args
  /\ kout = NoKernelCall

CallK3 ==
  /\ kout = NoKernelCall
  /\ kout' = K3Call(kargs, "none", 0)
  /\ UNCHANGED <<config, analyzedData, kargs>>

\* the same limits, the window followed by x
AppendValue(x) ==
  /\ kout # NoKernelCall
  /\ Len(kargs.values) < MaxK3Len
  /\ kargs' = [kargs EXCEPT !.values = Append(@, x)]
  /\ kout' = K3Call(kargs', "append", kout.value)
  /\ UNCHANGED <<config, analyzedData>>

\* the same limits, x followed by the window
PrependValue(x) ==
  /\ kout # NoKernelCall
  /\ Len(kargs.values) < MaxK3Len
  /\ kargs' = [kargs EXCEPT !.values = <<x>> \o @]
  /\ kout' = K3Call(kargs', "prepend", kout.value)
  /\ UNCHANGED <<config, analyzedData>>

NextBoundary ==
  \/ CallK3
  \/ \E x \in K3Values : AppendValue(x)
  \/ \E x \in K3Values : PrependValue(x)

SpecBoundary == InitBoundary /\ [][NextBoundary]_vars

\* ------------------------------------------------------------------------
\* The risk formula called on its own, before and after one input is raised
\* ------------------------------------------------------------------------

DriftTerms == {"k1_rssi", "k1_latency", "k1_txerr"}

StabilityTerms == {"k2_rssi", "k2_latency", "k2_txerr"}

OscillationTerms == {"k4_latency", "k4_txerr"}

BoundaryTerms == {"k3_latency"}

\* values of k1, of k2, of k3 and of k4
DriftGrid == {NumInt(0), Num(1, 500000)}

StabilityGrid == {Num(0, 250000), NumInt(1)}

BoundaryGrid == {0, 1}

OscillationGrid == {NumInt(0), Num(0, 500000)}

RiskArgs ==
  [DriftTerms -> DriftGrid] \X [StabilityTerms -> StabilityGrid]
    \X [BoundaryTerms -> BoundaryGrid] \X [OscillationTerms -> OscillationGrid]

\* calculateRiskScore on the arguments <<k1, k2, k3, k4>>
RiskOf(args) ==
  calculateRiskScore(args[1].k1_rssi, args[1].k1_latency, args[1].k1_txerr,
                     args[2].k2_rssi, args[2].k2_latency, args[2].k2_txerr,
                     args[3].k3_latency,
                     args[4].k4_latency, args[4].k4_txerr)

InitRisk ==
  /\ AnalyzerIdle
  /\ kargs \in RiskArgs
  /\ kout = NoKernelCall

CallRisk ==
  /\ kout = NoKernelCall
  /\ kout' = [fn |-> "calculateRiskScore", value |-> RiskOf(kargs),
              term |-> "none", before |-> RiskOf(kargs)]
  /\ UNCHANGED <<config, analyzedData, kargs>>

\* the call repeated with one k1 raised, the other arguments as before
RaiseDrift(term, v) ==
  /\ kout # NoKernelCall /\ kout.term = "none"
  /\ NumLT(kargs[1][term], v)
  /\ kargs' = [kargs EXCEPT ![1][term] = v]
  /\ kout' = [fn |-> "calculateRiskScore", value |-> RiskOf(kargs'),
              term |-> term, before |-> kout.value]
  /\ UNCHANGED <<config, analyzedData>>

\* the call repeated with one k2 lowered, i.e. one (1 - k2) raised
LowerStability(term, v) ==
  /\ kout # NoKernelCall /\ kout.term = "none"
  /\ NumLT(v, kargs[2][term])
  /\ kargs' = [kargs EXCEPT ![2][term] = v]
  /\ kout' = [fn |-> "calculateRiskScore", value |-> RiskOf(kargs'),
              term |-> term, before |-> kout.value]
  /\ UNCHANGED <<config, analyzedData>>

\* the call repeated with k3_latency raised
RaiseBoundary(term, v) ==
  /\ kout # NoKernelCall /\ kout.term = "none"
  /\ kargs[3][term] < v
  /\ kargs' = [kargs EXCEPT ![3][term] = v]
  /\ kout' = [fn |-> "calculateRiskScore", value |-> RiskOf(kargs'),
              term |-> term, before |-> kout.value]
  /\ UNCHANGED <<config, analyzedData>>

\* the call repeated with one k4 raised
RaiseOscillation(term, v) ==
  /\ kout # NoKernelCall /\ kout.term = "none"
  /\ NumLT(kargs[4][term], v)
  /\ kargs' = [kargs EXCEPT ![4][term] = v]
  /\ kout' = [fn |-> "calculateRiskScore", value |-> RiskOf(kargs'),
              term |-> term, before |-> kout.value]
  /\ UNCHANGED <<config, analyzedData>>

NextRisk ==
  \/ CallRisk
  \/ \E term \in DriftTerms, v \in DriftGrid : RaiseDrift(term, v)
  \/ \E term \in StabilityTerms, v \in StabilityGrid : LowerStability(term, v)
  \/ \E term \in BoundaryTerms, v \in BoundaryGrid : RaiseBoundary(term, v)
  \/ \E term \in OscillationTerms, v \in OscillationGrid : RaiseOscillation(term, v)

SpecRisk == InitRisk /\ [][NextRisk]_vars

\* ------------------------------------------------------------------------
\* Repeated analyzer calls on one series, other calls in between
\* ------------------------------------------------------------------------

\* <<longSize, midSize, shortSize>> of a series of calls
WindowTriples == {<<MaxWindow, 2, 1>>, <<2, MaxWindow, 2>>}

\* the selector of a call, "multi" standing for analyzeMultiSignalPoint
Selectors == PrimaryKeys \cup {"multi"}

\* the result of calling the analyzer the selector names at idx
CallResultCarryHits(idx, selector) ==
  LET r == IF selector = "multi"
           THEN analyzeMultiSignalPoint(fullData, idx, windowLong, windowMid, windowShort)
           ELSE analyzePoint(fullData, idx, windowLong, windowMid, windowShort, selector)
  IN  IF r = NoResult \/ kout = NoKernelCall THEN r
      ELSE IF kout.probe.result = NoResult THEN r
      ELSE [r EXCEPT !.k3 = @ + kout.probe.result.k3]

CallResult(idx, selector) ==
  IF selector = "multi"
  THEN analyzeMultiSignalPoint(fullData, idx, windowLong, windowMid, windowShort)
  ELSE analyzePoint(fullData, idx, windowLong, windowMid, windowShort, selector)

InitCalls ==
  /\ \/ fullData \in ObjectSeries
     \/ fullData \in NumberSeries
  /\ \E sizes \in WindowTriples :
       windowLong = sizes[1] /\ windowMid = sizes[2] /\ windowShort = sizes[3]
  /\ riskMode = "single"
  /\ primaryKey = "rssi_dBm"
  /\ analyzedData = [idx \in Indices(fullData) |-> Pending]
  /\ kargs = NoKernelArgs
  /\ kout = NoKernelCall

\* the record of a series of calls after one more call: the first call is
\* kept as the probe, a call with the probe's index and selector is the repeat,
\* any other call is counted and its result dropped
CallLog(log, call) ==
  IF log = NoKernelCall
  THEN [fn |-> "analyze", probe |-> call, between |-> 0, repeated |-> FALSE]
  ELSE IF call.index = log.probe.index /\ call.selector = log.probe.selector
  THEN [fn |-> "analyze", probe |-> log.probe, between |-> log.between,
        repeated |-> TRUE, series |-> call.series, result |-> call.result]
  ELSE [log EXCEPT !.between = @ + 1]

\* one analyzer call; the repeat of the first call ends the series
AnalyzeCall(idx, selector) ==
  /\ selector = "multi" => fullData.isObject
  /\ kout # NoKernelCall => ~kout.repeated
  /\ (kout # NoKernelCall /\ <<idx, selector>> # <<kout.probe.index, kout.probe.selector>>)
       => kout.between < MaxCalls
  /\ kout' = CallLog(kout, [series |-> fullData, index |-> idx, selector |-> selector,
                            result |-> CallResult(idx, selector)])
  /\ fullData' = fullDataAfterCall(fullData, idx, windowLong, windowMid, windowShort)
  /\ UNCHANGED <<windowLong, windowMid, windowShort, primaryKey, riskMode,
                 analyzedData, kargs>>

NextCalls ==
  \E idx \in 0..(Len(fullData.items) - 1), selector \in Selectors : AnalyzeCall(idx, selector)

SpecCalls == InitCalls /\ [][NextCalls]_vars

\* ------------------------------------------------------------------------
\* The per-index calls of the timeline made in any order
\* ------------------------------------------------------------------------

InitAnyOrder ==
  /\ \/ fullData \in ObjectSeries
     \/ fullData \in NumberSeries
  /\ \E sizes \in WindowTriples :
       windowLong = sizes[1] /\ windowMid = sizes[2] /\ windowShort = sizes[3]
  /\ riskMode \in {"single", "multi"}
  /\ primaryKey \in (IF riskMode = "multi" THEN {"rssi_dBm"} ELSE PrimaryKeys)
  /\ riskMode = "multi" => fullData.isObject
  /\ analyzedData = [idx \in Indices(fullData) |-> Pending]
  /\ kargs = [original |-> fullData]
  /\ kout = NoKernelCall

\* the call for any index of the timeline not analysed yet
AnalyzeAnySingle(idx) ==
  /\ riskMode = "single"
  /\ analyzedData[idx] = Pending
  /\ analyzedData' = [analyzedData EXCEPT ![idx] =
       analyzePointRun(fullData, idx, windowLong, windowMid, windowShort, primaryKey)]
  /\ fullData' = fullDataAfterCall(fullData, idx, windowLong, windowMid, windowShort)
  /\ UNCHANGED <<windowLong, windowMid, windowShort, primaryKey, riskMode, kargs, kout>>

AnalyzeAnyMulti(idx) ==
  /\ riskMode = "multi"
  /\ analyzedData[idx] = Pending
  /\ analyzedData' = [analyzedData EXCEPT ![idx] =
       analyzeMultiSignalPointRun(fullData, idx, windowLong, windowMid, windowShort)]
  /\ fullData' = fullDataAfterCall(fullData, idx, windowLong, windowMid, windowShort)
  /\ UNCHANGED <<windowLong, windowMid, windowShort, primaryKey, riskMode, kargs, kout>>

NextAnyOrder ==
  \/ \E idx \in 0..(Len(fullData.items) - 1) : AnalyzeAnySingle(idx)
  \/ \E idx \in 0..(Len(fullData.items) - 1) : AnalyzeAnyMulti(idx)

SpecAnyOrder == InitAnyOrder /\ [][NextAnyOrder]_vars

\* ------------------------------------------------------------------------
\* The per-index pass with window lengths of any sign
\* ------------------------------------------------------------------------

\* window lengths as the number inputs deliver them: negative, zero, positive
LengthValues == -1..2

InitLengths ==
  /\ \/ fullData \in {[isObject |-> TRUE, items |-> q] :
                         q \in SeqsUpTo(Points, MaxProbe) \ {<<>>}}
     \/ fullData \in {[isObject |-> FALSE, items |-> q] : q \in SeqsUpTo(Numbers, MaxProbe)}
  /\ windowLong \in LengthValues
  /\ windowMid \in LengthValues
  /\ windowShort \in LengthValues
  /\ riskMode \in {"single", "multi"}
  /\ primaryKey \in (IF riskMode = "multi" THEN {"rssi_dBm"} ELSE PrimaryKeys)
  /\ riskMode = "multi" => fullData.isObject
  /\ analyzedData = [idx \in Indices(fullData) |-> Pending]
  /\ kargs = NoKernelArgs
  /\ kout = NoKernelCall

SpecLengths == InitLengths /\ [][Next]_vars

\* ------------------------------------------------------------------------
\* The drift and stability classifiers called on their own, on two scores
\* ------------------------------------------------------------------------

ScorePairs == {[scoreA |-> a, scoreB |-> b] : a \in ScoreGrid, b \in ScoreGrid}

InitJudge ==
  /\ AnalyzerIdle
  /\ kargs \in ScorePairs
  /\ kout = NoKernelCall

CallJudgeDrift ==
  /\ kout = NoKernelCall
  /\ kout' = [fn |-> "judgeDrift",
              levelA |-> judgeDrift(kargs.scoreA),
              levelB |-> judgeDrift(kargs.scoreB)]
  /\ UNCHANGED <<config, analyzedData, kargs>>

CallJudgeStability ==
  /\ kout = NoKernelCall
  /\ kout' = [fn |-> "judgeStability",
              levelA |-> judgeStability(kargs.scoreA),
              levelB |-> judgeStability(kargs.scoreB)]
  /\ UNCHANGED <<config, analyzedData, kargs>>

NextJudge ==
  \/ CallJudgeDrift
  \/ CallJudgeStability

SpecJudge == InitJudge /\ [][NextJudge]_vars

\* ------------------------------------------------------------------------
\* The per-index pass over samples of every field pattern and every selector
\* ------------------------------------------------------------------------

\* samples with role values (magnitude, latency, error rate) (0, 0, 0) from
\* present zeros, (-61, 31, 2) and (-62, 71, 1) from second and third fields,
\* (-60, 20, 0) all by default, (-59, 20, 0) and (-60, -1, 0)
RolePoints ==
  { Point(Some(0), Some(-61), Some(-62), Some(0), Some(0), Some(2)),
    Point(Null, Some(-61), Some(-62), Some(31), Null, Some(2)),
    Point(Null, Null, Some(-62), Some(71), Some(1), Null),
    Point(Null, Null, Null, Null, Null, Null),
    Point(Some(-59), Null, Null, Null, Null, Null),
    Point(Null, Null, Null, Some(-1), Null, Null) }

RoleSeries ==
  {[isObject |-> TRUE, items |-> q] : q \in SeqsUpTo(RolePoints, MaxRoleLen) \ {<<>>}}

RoleNumbers ==
  {[isObject |-> FALSE, items |-> q] : q \in SeqsUpTo(Numbers, MaxRoleLen)}

\* selectors naming a field of each role, one naming two roles and one
\* naming a field the analyzer does not single out
SelectorKeys ==
  {"rssi_dBm", "latency_p95", "loss_rate", "retry_rate", "tx_err_latency", "rx_power_dBm"}

\* <<longSize, midSize, shortSize>>
RoleWindows == {<<MaxRoleLen, 2, 1>>, <<1, 2, 2>>}

InitRoles ==
  /\ \/ fullData \in RoleSeries
     \/ fullData \in RoleNumbers
  /\ \E sizes \in RoleWindows :
       windowLong = sizes[1] /\ windowMid = sizes[2] /\ windowShort = sizes[3]
  /\ riskMode \in {"single", "multi"}
  /\ primaryKey \in (IF riskMode = "multi" THEN {"rssi_dBm"} ELSE SelectorKeys)
  /\ riskMode = "multi" => fullData.isObject
  /\ analyzedData = [idx \in Indices(fullData) |-> Pending]
  /\ kargs = NoKernelArgs
  /\ kout = NoKernelCall

SpecRoles == InitRoles /\ [][Next]_vars

\* ------------------------------------------------------------------------
\* The per-index pass over longer numeric series, one selector
\* ------------------------------------------------------------------------

DriftNumbers == {0, 1, 31}

DriftSeries ==
  {[isObject |-> FALSE, items |-> q] : q \in SeqsUpTo(DriftNumbers, MaxDriftLen)}

\* <<longSize, midSize, shortSize>>, the short window within the long one or not
DriftWindows == {<<L, 1, S>> : L \in {2, MaxDriftLen}, S \in {1, 2, 3}}

InitDrift ==
  /\ fullData \in DriftSeries
  /\ \E sizes \in DriftWindows :
       windowLong = sizes[1] /\ windowMid = sizes[2] /\ windowShort = sizes[3]
  /\ riskMode = "single"
  /\ primaryKey = "rssi_dBm"
  /\ analyzedData = [idx \in Indices(fullData) |-> Pending]
  /\ kargs = NoKernelArgs
  /\ kout = NoKernelCall

NextSingle == \E idx \in Indices(fullData) : AnalyzeSingle(idx)

SpecDrift == InitDrift /\ [][NextSingle]_vars

\* ------------------------------------------------------------------------
\* Properties: vocabulary
\* ------------------------------------------------------------------------

\* the indices analysed so far
Done == {idx \in Indices(fullData) : analyzedData[idx] # Pending}

Result(idx) == analyzedData[idx].result

Windows(idx) == analyzedData[idx].targetWindows

Returned(idx) == idx \in Done /\ Result(idx) # NoResult

InRange(idx) == 0 <= idx /\ idx < Len(fullData.items)

SignalNames == {"RSSI", "Latency", "TxErr"}

\* the selector analyzeMultiSignalPoint fixes for each signal
SelectorOf(name) ==
  CASE name = "RSSI" -> "rssi_dBm"
    [] name = "Latency" -> "latency_p95"
    [] name = "TxErr" -> "loss_rate"

\* the first k samples of a series
Prefix(data, k) == [data EXCEPT !.items = SubSeq(data.items, 1, k)]

\* w is series[i - min(L, i+1) + 1 .. i], positions counted from 0
IsTrailingSlice(w, series, i, L) ==
  LET n == Min2(L, i + 1)
  IN  /\ Len(w) = n
      /\ \A k \in 1..n : w[k] = series[i - n + 1 + k]
      /\ w[Len(w)] = series[i + 1]

AreTrailingWindows(w, series, i) ==
  /\ IsTrailingSlice(w.long, series, i, windowLong)
  /\ IsTrailingSlice(w.mid, series, i, windowMid)
  /\ IsTrailingSlice(w.short, series, i, windowShort)
  /\ w.current = <<series[i + 1]>>

\* 0.30*(1-k2_rssi) + 0.30*(1-k2_latency) + 0.10*(1-k2_txerr)
\* + 0.05*(k1_rssi+k1_latency+k1_txerr) + 0.05*(k4_latency+k4_txerr)
\* + 0.02*k3_latency
RiskFormula(k1_rssi, k1_latency, k1_txerr, k2_rssi, k2_latency, k2_txerr, k3_latency, k4_latency, k4_txerr) ==
  LET stability == NumAdd(NumAdd(NumTimes(30, 100, NumSub(NumInt(1), k2_rssi)),
                                 NumTimes(30, 100, NumSub(NumInt(1), k2_latency))),
                          NumTimes(10, 100, NumSub(NumInt(1), k2_txerr)))
      drift     == NumTimes(5, 100, NumAdd(NumAdd(k1_rssi, k1_latency), k1_txerr))
      oscill    == NumTimes(5, 100, NumAdd(k4_latency, k4_txerr))
      boundary  == NumTimes(2, 100, NumInt(k3_latency))
  IN  NumAdd(NumAdd(NumAdd(stability, drift), oscill), boundary)

\* the formula applied to the indicators of the three role series at idx
RoleRisk(idx) ==
  LET wR == getWindows(rssiSeries(fullData), idx, windowLong, windowMid, windowShort)
      wL == getWindows(latencySeries(fullData), idx, windowLong, windowMid, windowShort)
      wT == getWindows(txErrSeries(fullData), idx, windowLong, windowMid, windowShort)
  IN  RiskFormula(calculateK1Drift(wR.short, wR.long),
                  calculateK1Drift(wL.short, wL.long),
                  calculateK1Drift(wT.short, wT.long),
                  calculateK2Stability(wR.mid),
                  calculateK2Stability(wL.mid),
                  calculateK2Stability(wT.mid),
                  calculateK3Boundary(wL.current, Some(0), Some(70), Some(30)),
                  calculateK4OscillationDynamic(wL.short, wL.long),
                  calculateK4OscillationDynamic(wT.short, wT.long))

\* overallRisk is the class of the riskScore of the same record
RiskClassified(r) ==
  /\ r.overallRisk \in {"HIGH", "MEDIUM", "LOW"}
  /\ r.overallRisk = "HIGH" <=> NumGT(r.riskScore, Num(0, 800000))
  /\ r.overallRisk = "MEDIUM" <=> /\ NumGT(r.riskScore, Num(0, 400000))
                                  /\ NumLE(r.riskScore, Num(0, 800000))
  /\ r.overallRisk = "LOW" <=> NumLE(r.riskScore, Num(0, 400000))

\* m is (a + b + c) / 3 to the last kept digit
IsMeanOf3(m, a, b, c) ==
  LET sum    == NumAdd(NumAdd(a, b), c)
      triple == NumAdd(NumAdd(m, m), m)
  IN  NumLE(triple, sum) /\ NumLT(sum, NumAdd(triple, Num(0, 3)))

RECURSIVE SumOfSquares(_)
SumOfSquares(arr) ==
  IF arr = <<>> THEN 0 ELSE arr[1] * arr[1] + SumOfSquares(Tail(arr))

Range(arr) == {arr[k] : k \in 1..Len(arr)}

\* the sample standard deviation of a non-empty window, squared deviations
\* divided by max(n - 1, 1), in units
SampleStd(arr) ==
  LET n == Len(arr)
  IN  SqrtUnits(n * SumOfSquares(arr) - SumSeq(arr) * SumSeq(arr), n * Max2(n - 1, 1))

\* |mean(a) - mean(b)| / (s + 1e-6) for non-empty a and b, s in units
DriftRatio(a, b, s) ==
  NumRatio(Abs(SumSeq(a) * Len(b) - SumSeq(b) * Len(a)), Len(a) * Len(b), s + 1)

\* max - min of a non-empty window
Spread(arr) ==
  LET hi == CHOOSE m \in Range(arr) : \A v \in Range(arr) : v <= m
      lo == CHOOSE m \in Range(arr) : \A v \in Range(arr) : m <= v
  IN  hi - lo

IsK1Call == kout.fn = "calculateK1Drift"

IsK2Call == kout.fn = "calculateK2Stability"

\* ------------------------------------------------------------------------
\* Properties
\* ------------------------------------------------------------------------

\* C1: an analyzer call (analyzePoint or analyzeMultiSignalPoint) returns no
\* result exactly when the index is negative, at or past the series length,
\* or below shortSize; so over the timeline the results are absent for the
\* leading indices 0 .. shortSize-1 and present from shortSize to n-1.
C1_NoResultExactlyWhenRejected ==
  \A idx \in Done :
    /\ Result(idx) = NoResult
         <=> (idx < 0 \/ idx >= Len(fullData.items) \/ idx < windowShort)
    /\ InRange(idx) => (Result(idx) = NoResult <=> idx \in 0..(windowShort - 1))

C1_Witness ==
  /\ Done = Indices(fullData)
  /\ riskMode = "multi"
  /\ \E idx \in Done : InRange(idx) /\ idx < windowShort /\ Result(idx) = NoResult
  /\ \E idx \in Done : InRange(idx) /\ Returned(idx)
  /\ Result(-1) = NoResult /\ Result(Len(fullData.items)) = NoResult

\* C2: at every index i of the series that is not below shortSize, the short,
\* mid and long windows analyzePoint extracts are the trailing slices
\* series[max(0, i-L+1) .. i] with min(L, i+1) samples ending in series[i]
\* (a longer request is clipped, not rejected), and current is <<series[i]>>.
C2_WindowsAreTrailingSlices ==
  \A idx \in Done :
    (InRange(idx) /\ idx >= windowShort) =>
      /\ Windows(idx) # NoResult
      /\ IF riskMode = "single"
         THEN AreTrailingWindows(Windows(idx), targetSeries(fullData, primaryKey), idx)
         ELSE \A name \in SignalNames :
                AreTrailingWindows(Windows(idx)[name],
                                   targetSeries(fullData, SelectorOf(name)), idx)

C2_Witness ==
  \E idx \in Done :
    /\ riskMode = "single"
    /\ Returned(idx)
    /\ windowLong > idx + 1
    /\ Len(Windows(idx).long) = idx + 1
    /\ Len(Windows(idx).short) = windowShort
    /\ windowShort < idx + 1

\* C3: the result at index i is the result for the series cut after position
\* i, so two series that agree on positions 0 .. i get the same result at i.
C3_ResultIgnoresLaterSamples ==
  \A idx \in Done :
    InRange(idx) =>
      Result(idx) =
        IF riskMode = "single"
        THEN analyzePoint(Prefix(fullData, idx + 1), idx,
                          windowLong, windowMid, windowShort, primaryKey)
        ELSE analyzeMultiSignalPoint(Prefix(fullData, idx + 1), idx,
                                     windowLong, windowMid, windowShort)

C3_Witness ==
  \E idx \in Done :
    /\ Returned(idx)
    /\ idx + 1 < Len(fullData.items)
    /\ fullData.items[idx + 2] # fullData.items[idx + 1]

\* C4: the riskScore of analyzePoint is the weighted formula applied to k1 and
\* k2 of the three role series, k4 of latency and error rate, and the
\* boundary count of the current latency; nothing else enters it.
C4_RiskScoreIsFormulaOfRoles ==
  \A idx \in Done :
    Returned(idx) =>
      IF riskMode = "single"
      THEN Result(idx).riskScore = RoleRisk(idx)
      ELSE \A name \in SignalNames : Result(idx).signals[name].riskScore = RoleRisk(idx)

C4_Witness ==
  \E idx \in Done :
    /\ riskMode = "single"
    /\ Returned(idx)
    /\ fullData.isObject
    /\ LET wR == getWindows(rssiSeries(fullData), idx, windowLong, windowMid, windowShort)
           wL == getWindows(latencySeries(fullData), idx, windowLong, windowMid, windowShort)
       IN  /\ calculateK4OscillationDynamic(wR.short, wR.long)
                # calculateK4OscillationDynamic(wL.short, wL.long)
           /\ calculateK3Boundary(wR.current, Some(0), Some(70), Some(30)) > 0
           /\ calculateK3Boundary(wL.current, Some(0), Some(70), Some(30)) = 0

\* C5: in every KernelResult (single result, multi-signal result and its three
\* sub-results) overallRisk classifies the record's own riskScore: HIGH iff
\* > 0.8, MEDIUM iff in (0.4, 0.8], LOW iff <= 0.4.
C5_OverallRiskClassifiesRiskScore ==
  \A idx \in Done :
    Returned(idx) =>
      /\ RiskClassified(Result(idx))
      /\ riskMode = "multi" =>
           \A name \in SignalNames : RiskClassified(Result(idx).signals[name])

C5_Witness ==
  \E idx \in Done :
    /\ riskMode = "multi"
    /\ Returned(idx)
    /\ Result(idx).overallRisk = "MEDIUM"
    /\ NumLE(Result(idx).riskScore, Num(0, 500000))
    /\ Result(idx).signals.RSSI.overallRisk = "LOW"

\* C6: the riskScore of analyzeMultiSignalPoint is the formula applied to k1,
\* k2 of its three sub-results, k3 of Latency and k4 of Latency and TxErr,
\* each sub-result being analyzePoint at the same index and window lengths
\* with selector rssi_dBm, latency_p95, loss_rate.
C6_MultiRiskFromSubResults ==
  \A idx \in Done :
    (riskMode = "multi" /\ Returned(idx)) =>
      LET sig == Result(idx).signals
      IN  /\ \A name \in SignalNames :
                sig[name] = analyzePoint(fullData, idx, windowLong, windowMid,
                                         windowShort, SelectorOf(name))
          /\ Result(idx).riskScore =
               RiskFormula(sig.RSSI.k1, sig.Latency.k1, sig.TxErr.k1,
                           sig.RSSI.k2, sig.Latency.k2, sig.TxErr.k2,
                           sig.Latency.k3,
                           sig.Latency.k4, sig.TxErr.k4)

C6_Witness ==
  \E idx \in Done :
    /\ riskMode = "multi"
    /\ Returned(idx)
    /\ \A name \in SignalNames :
         Result(idx).riskScore # Result(idx).signals[name].riskScore

\* C7: a multi-signal result has driftScore and stabilityScore equal to the
\* mean of its three sub-results' scores, and a signals map with exactly the
\* keys RSSI, Latency, TxErr holding the complete analyzePoint sub-results,
\* which carry no signals map themselves.
C7_MultiAveragesAndSignals ==
  \A idx \in Done :
    (riskMode = "multi" /\ Returned(idx)) =>
      LET r   == Result(idx)
          sig == r.signals
      IN  /\ DOMAIN sig = SignalNames
          /\ IsMeanOf3(r.driftScore, sig.RSSI.driftScore, sig.Latency.driftScore,
                       sig.TxErr.driftScore)
          /\ IsMeanOf3(r.stabilityScore, sig.RSSI.stabilityScore,
                       sig.Latency.stabilityScore, sig.TxErr.stabilityScore)
          /\ \A name \in SignalNames :
               /\ "signals" \notin DOMAIN sig[name]
               /\ sig[name] = analyzePointRun(fullData, idx, windowLong, windowMid,
                                              windowShort, SelectorOf(name)).result

C7_Witness ==
  \E idx \in Done :
    /\ riskMode = "multi"
    /\ Returned(idx)
    /\ Result(idx).driftScore # Result(idx).signals.RSSI.driftScore
    /\ Result(idx).stabilityScore # Result(idx).signals.RSSI.stabilityScore
    /\ Result(idx).signals.Latency.driftScore # Result(idx).signals.TxErr.driftScore

\* C8: calculateK1Drift(short, long) is |mean(short) - mean(long)| divided by
\* (s + 1e-6), s the sample standard deviation of the long window; it is
\* never negative; long = [10,10,10,10,10], short = [15,15] gives 5,000,000,
\* which judgeDrift classifies SEVERE_DRIFT.
C8_DriftFormula ==
  IsK1Call =>
    /\ NumLE(NumInt(0), kout.value)
    /\ (kargs.shortVals # <<>> /\ kargs.longVals # <<>>) =>
         kout.value = DriftRatio(kargs.shortVals, kargs.longVals,
                                 SampleStd(kargs.longVals))
    /\ (kargs.shortVals = <<15, 15>> /\ kargs.longVals = <<10, 10, 10, 10, 10>>) =>
         /\ kout.value = NumInt(5000000)
         /\ judgeDrift(kout.value) = "SEVERE_DRIFT"

C8_Witness ==
  /\ IsK1Call
  /\ kargs.shortVals = <<15, 15>>
  /\ kargs.longVals = <<10, 10, 10, 10, 10>>
  /\ kout.value = NumInt(5000000)

\* C9: for every non-empty window calculateK2Stability returns a value in the
\* closed interval [0, 1].
C9_StabilityInUnitInterval ==
  (IsK2Call /\ kout.window # <<>>) =>
    /\ NumLE(NumInt(0), kout.value)
    /\ NumLE(kout.value, NumInt(1))

C9_Witness ==
  /\ IsK2Call
  /\ Len(kout.window) >= 3
  /\ Cardinality(Range(kout.window)) = 3
  /\ NumLT(NumInt(0), kout.value)
  /\ NumLT(kout.value, NumInt(1))

StateOf(v, long) == IF v * Len(long) > SumSeq(long) THEN 1 ELSE 0

\* the positions j of short whose state differs from that of position j + 1
Crossings(short, long) ==
  {j \in 1..(Len(short) - 1) : StateOf(short[j], long) # StateOf(short[j + 1], long)}

\* x is t / d to the last kept digit, d > 0
IsQuotient(x, t, d) ==
  LET units == x.i * Unit + x.f
  IN  units * d <= t * Unit /\ t * Unit < (units + 1) * d

IsK4Call == kout.fn = "calculateK4OscillationDynamic"

\* C11: calculateK4OscillationDynamic(short, long) is 0 when short has fewer
\* than 2 samples or long is empty, else t / (len(short) - 1), t the number of
\* adjacent pairs of short with different states, the state of v being 1 iff
\* v > mean(long); it lies in [0, 1], is 0 for a short window on one side of
\* the reference and exactly 1.0, HIGH, for one crossing it at every step.
C11_OscillationFormula ==
  IsK4Call =>
    LET short == kargs.shortVals
        long  == kargs.longVals
        t     == Cardinality(Crossings(short, long))
    IN  /\ (Len(short) < 2 \/ long = <<>>) => kout.value = NumInt(0)
        /\ (Len(short) >= 2 /\ long # <<>>) => IsQuotient(kout.value, t, Len(short) - 1)
        /\ NumLE(NumInt(0), kout.value) /\ NumLE(kout.value, NumInt(1))
        /\ (\A j \in 1..Len(short) : StateOf(short[j], long) = StateOf(short[1], long))
             => kout.value = NumInt(0)
        /\ (Len(short) >= 2 /\ long # <<>> /\ t = Len(short) - 1) =>
             /\ kout.value = NumInt(1)
             /\ kout.level = "HIGH"

C11_Witness ==
  /\ IsK4Call
  /\ kargs.shortVals = <<15, 10, 15, 10, 15, 10>>
  /\ kargs.longVals = <<10, 15>>
  /\ kout.value = NumInt(1)

IsK3Call == kout.fn = "calculateK3Boundary"

\* the positions of args.values that break at least one active limit
Violations(args) ==
  {j \in 1..Len(args.values) :
     \/ args.minVal # Null /\ args.values[j] < args.minVal[1]
     \/ args.maxVal # Null /\ args.values[j] > args.maxVal[1]
     \/ /\ args.maxDerivative # Null
        /\ j > 1
        /\ Abs(args.values[j] - args.values[j - 1]) > args.maxDerivative[1]}

\* C12: calculateK3Boundary returns the number of values that break at least
\* one active limit (v < minVal, v > maxVal, |v - prev| > maxDerivative with
\* prev the value just before v): several broken limits count once, the first
\* value has no derivative check, null limits are skipped, comparisons are
\* strict, the result is between 0 and the length; 72 in [0, 70] gives 1.
C12_BoundaryCount ==
  IsK3Call =>
    /\ kout.value = Cardinality(Violations(kargs))
    /\ 0 <= kout.value /\ kout.value <= Len(kargs.values)
    /\ kargs.values = <<>> => kout.value = 0
    /\ (kargs.values = <<72>> /\ kargs.minVal = Some(0) /\ kargs.maxVal = Some(70)
          /\ kargs.maxDerivative = Null) => kout.value = 1

C12_Witness ==
  /\ IsK3Call
  /\ kargs.values = <<70, 72, -1>>
  /\ kargs.minVal = Some(0) /\ kargs.maxVal = Some(70) /\ kargs.maxDerivative = Some(1)
  /\ kout.value = 2

\* C13: with the limits fixed the boundary count never decreases when the
\* window is extended by a value at its end or at its front, so of two
\* trailing windows ending at the same index the longer never counts less.
C13_BoundaryCountGrows ==
  (IsK3Call /\ kout.grown \in {"append", "prepend"}) => kout.before <= kout.value

C13_Witness ==
  /\ IsK3Call
  /\ kout.grown = "prepend"
  /\ kargs.maxDerivative = Some(1)
  /\ kargs.values = <<0, 2>>
  /\ kout.before = 0
  /\ kout.value = 1

IsRiskCall == kout.fn = "calculateRiskScore"

\* the order LOW < MEDIUM < HIGH of the risk classes
LevelRank(level) ==
  CASE level = "LOW" -> 0
    [] level = "MEDIUM" -> 1
    [] level = "HIGH" -> 2

\* C14: raising one positive-weighted input of calculateRiskScore (a k1, a
\* (1 - k2) by lowering that k2, a k4, or k3_latency) with the others fixed
\* never lowers the risk score, nor moves its class to a lower level.
C14_RiskMonotone ==
  (IsRiskCall /\ kout.term # "none") =>
    /\ NumLE(kout.before, kout.value)
    /\ LevelRank(RiskLevel(kout.before)) <= LevelRank(RiskLevel(kout.value))

C14_Witness ==
  /\ IsRiskCall
  /\ kout.term = "k2_rssi"
  /\ NumLT(kout.before, kout.value)
  /\ RiskLevel(kout.before) = "LOW"
  /\ RiskLevel(kout.value) = "MEDIUM"

IsRepeatedCall == kout.fn = "analyze" /\ kout.repeated

RECURSIVE SeriesBefore(_, _)
SeriesBefore(data, idx) ==
  IF idx = 0 THEN data
  ELSE fullDataAfterCall(SeriesBefore(data, idx - 1), idx - 1,
                         windowLong, windowMid, windowShort)

\* what the sequential pass stores for idx
SequentialRun(idx) ==
  IF riskMode = "single"
  THEN analyzePointRun(SeriesBefore(kargs.original, idx), idx,
                       windowLong, windowMid, windowShort, primaryKey)
  ELSE analyzeMultiSignalPointRun(SeriesBefore(kargs.original, idx), idx,
                                  windowLong, windowMid, windowShort)

WindowsFilled(w) == w.long # <<>> /\ w.mid # <<>> /\ w.short # <<>>

\* C17: in every analyzePoint call that returns a result, each of the short,
\* mid and long windows handed to the indicators holds at least one sample,
\* whatever integer window lengths the caller passes.
C17_WindowsNeverEmpty ==
  \A idx \in Done :
    Returned(idx) =>
      /\ \A series \in {rssiSeries(fullData), latencySeries(fullData), txErrSeries(fullData)} :
           WindowsFilled(getWindows(series, idx, windowLong, windowMid, windowShort))
      /\ IF riskMode = "single"
         THEN WindowsFilled(Windows(idx))
         ELSE \A name \in SignalNames : WindowsFilled(Windows(idx)[name])

IsJudgeDriftCall == kout.fn = "judgeDrift"

\* severity of a drift class
DriftRank(status) ==
  CASE status = "STABLE" -> 0
    [] status = "MILD_DRIFT" -> 1
    [] status = "MODERATE_DRIFT" -> 2
    [] status = "SEVERE_DRIFT" -> 3

\* status is the class the drift thresholds 1.0, 2.0, 3.0 give score
IsDriftClass(status, score) ==
  /\ status \in {"STABLE", "MILD_DRIFT", "MODERATE_DRIFT", "SEVERE_DRIFT"}
  /\ status = "STABLE" <=> NumLT(score, NumInt(1))
  /\ status = "MILD_DRIFT" <=> (NumLE(NumInt(1), score) /\ NumLT(score, NumInt(2)))
  /\ status = "MODERATE_DRIFT" <=> (NumLE(NumInt(2), score) /\ NumLT(score, NumInt(3)))
  /\ status = "SEVERE_DRIFT" <=> NumLE(NumInt(3), score)

\* C18: judgeDrift is a total step function of the drift score: STABLE iff
\* score < 1.0, MILD_DRIFT iff 1.0 <= score < 2.0, MODERATE_DRIFT iff
\* 2.0 <= score < 3.0, SEVERE_DRIFT iff score >= 3.0; a score on a threshold
\* is in the more severe class, and a larger score never gets a less severe one.
C18_DriftClasses ==
  IsJudgeDriftCall =>
    /\ IsDriftClass(kout.levelA, kargs.scoreA)
    /\ IsDriftClass(kout.levelB, kargs.scoreB)
    /\ kargs.scoreA = NumInt(1) => kout.levelA = "MILD_DRIFT"
    /\ kargs.scoreA = NumInt(2) => kout.levelA = "MODERATE_DRIFT"
    /\ kargs.scoreA = NumInt(3) => kout.levelA = "SEVERE_DRIFT"
    /\ NumLE(kargs.scoreA, kargs.scoreB) =>
         DriftRank(kout.levelA) <= DriftRank(kout.levelB)

C18_Witness ==
  /\ IsJudgeDriftCall
  /\ kargs.scoreA = NumInt(2)
  /\ kargs.scoreB = NumInt(3)
  /\ kout.levelA = "MODERATE_DRIFT"
  /\ kout.levelB = "SEVERE_DRIFT"

IsJudgeStabilityCall == kout.fn = "judgeStability"

\* quality of a stability class, the best highest
StabilityRank(status) ==
  CASE status = "UNSTABLE" -> 0
    [] status = "MARGINAL" -> 1
    [] status = "GOOD" -> 2

\* status is the class the stability thresholds 0.9 and 0.7 give k2
IsStabilityClass(status, k2) ==
  /\ status \in {"GOOD", "MARGINAL", "UNSTABLE"}
  /\ status = "GOOD" <=> NumGT(k2, Num(0, 900000))
  /\ status = "MARGINAL" <=> (NumGT(k2, Num(0, 700000)) /\ NumLE(k2, Num(0, 900000)))
  /\ status = "UNSTABLE" <=> NumLE(k2, Num(0, 700000))

\* C19: judgeStability is a total step function of the stability score: GOOD
\* iff k2 > 0.9, MARGINAL iff 0.7 < k2 <= 0.9, UNSTABLE iff k2 <= 0.7; exactly
\* 0.9 is MARGINAL and exactly 0.7 is UNSTABLE, and a larger score never gets
\* a worse class.
C19_StabilityClasses ==
  IsJudgeStabilityCall =>
    /\ IsStabilityClass(kout.levelA, kargs.scoreA)
    /\ IsStabilityClass(kout.levelB, kargs.scoreB)
    /\ kargs.scoreA = Num(0, 900000) => kout.levelA = "MARGINAL"
    /\ kargs.scoreA = Num(0, 700000) => kout.levelA = "UNSTABLE"
    /\ NumLE(kargs.scoreA, kargs.scoreB) =>
         StabilityRank(kout.levelA) <= StabilityRank(kout.levelB)

C19_Witness ==
  /\ IsJudgeStabilityCall
  /\ kargs.scoreA = Num(0, 700000)
  /\ kargs.scoreB = Num(0, 900000)
  /\ kout.levelA = "UNSTABLE"
  /\ kout.levelB = "MARGINAL"

IsJudgeOscillationCall == kout.fn = "judgeOscillation"

\* level is the class the oscillation thresholds 0.2 and 0.5 give k4
IsOscillationClass(level, k4) ==
  /\ level \in {"LOW", "MEDIUM", "HIGH"}
  /\ level = "LOW" <=> NumLT(k4, Num(0, 200000))
  /\ level = "MEDIUM" <=> (NumLE(Num(0, 200000), k4) /\ NumLT(k4, Num(0, 500000)))
  /\ level = "HIGH" <=> NumLE(Num(0, 500000), k4)

\* C20: judgeOscillation is a total step function of the oscillation score:
\* LOW iff k4 < 0.2, MEDIUM iff 0.2 <= k4 < 0.5, HIGH iff k4 >= 0.5, a score
\* on a threshold being in the higher class; for a short window of m >= 2
\* samples with t baseline crossings the level of its score is LOW iff
\* 5t < m - 1, MEDIUM iff m - 1 <= 5t and 2t < m - 1, HIGH iff 2t >= m - 1.
C20_OscillationClasses ==
  /\ IsJudgeOscillationCall =>
       /\ IsOscillationClass(kout.level, kargs.score)
       /\ kargs.score = Num(0, 200000) => kout.level = "MEDIUM"
       /\ kargs.score = Num(0, 500000) => kout.level = "HIGH"
  /\ (IsK4Call /\ Len(kargs.shortVals) >= 2 /\ kargs.longVals # <<>>) =>
       LET m == Len(kargs.shortVals)
           t == Cardinality(Crossings(kargs.shortVals, kargs.longVals))
       IN  /\ kout.level = "LOW" <=> 5 * t < m - 1
           /\ kout.level = "MEDIUM" <=> (m - 1 <= 5 * t /\ 2 * t < m - 1)
           /\ kout.level = "HIGH" <=> 2 * t >= m - 1

C20_Witness ==
  /\ IsK4Call
  /\ kargs.shortVals = <<10, 10, 10, 10, 10, 15>>
  /\ kargs.longVals = <<10, 15>>
  /\ kout.value = Num(0, 200000)
  /\ kout.level = "MEDIUM"

\* the four classifications of the record r are those of its own k1 .. k4
IsClassified(r) ==
  /\ IsDriftClass(r.driftStatus, r.k1)
  /\ IsStabilityClass(r.stabilityStatus, r.k2)
  /\ IsOscillationClass(r.oscillationLevel, r.k4)
  /\ r.boundaryStatus \in {"YES", "NO"}
  /\ r.boundaryStatus = "YES" <=> r.k3 > 0

\* the KernelResult records of the result stored for idx: the result itself
\* and, for a multi-signal result, its three sub-results
RecordsOf(idx) ==
  IF riskMode = "single" THEN {Result(idx)}
  ELSE {Result(idx)} \cup {Result(idx).signals[name] : name \in SignalNames}

\* C21: every KernelResult record (the result of analyzePoint, each sub-result
\* in signals, the top level of a multi-signal result) carries the classes of
\* its own raw scores: driftStatus is the drift class of k1, stabilityStatus
\* the stability class of k2, oscillationLevel the oscillation class of k4,
\* boundaryStatus is YES iff k3 > 0 and NO otherwise, never WARNING.
C21_ClassesOfOwnScores ==
  \A idx \in Done :
    Returned(idx) =>
      /\ IsClassified(Result(idx))
      /\ riskMode = "multi" =>
           \A name \in SignalNames : IsClassified(Result(idx).signals[name])

C21_Witness ==
  \E idx \in Done :
    /\ riskMode = "multi"
    /\ Returned(idx)
    /\ Result(idx).signals["Latency"].boundaryStatus = "YES"
    /\ Result(idx).boundaryStatus = "NO"
    /\ Result(idx).driftStatus = "MILD_DRIFT"
    /\ NumLT(Result(idx).driftScore, NumInt(1))

\* the first of the fields that the sample d has, else the default
FirstPresent(d, fields, default) ==
  IF \A k \in 1..Len(fields) : d[fields[k]] = Null THEN default
  ELSE LET k == CHOOSE j \in 1..Len(fields) :
                  d[fields[j]] # Null /\ \A h \in 1..(j - 1) : d[fields[h]] = Null
       IN  d[fields[k]][1]

\* the value of the sample d in a role
RoleValue(name, d) ==
  CASE name = "RSSI"    -> FirstPresent(d, <<"rssi_dBm", "rx_power_dBm", "rsrp_dBm">>, -60)
    [] name = "Latency" -> FirstPresent(d, <<"latency_p95">>, 20)
    [] name = "TxErr"   -> FirstPresent(d, <<"loss_rate", "retry_rate">>, 0)

\* the window w ends at position idx and holds the role values of its samples
HoldsRoleValues(w, name, idx) ==
  /\ w # <<>>
  /\ \A k \in 1..Len(w) :
       w[k] = RoleValue(name, fullData.items[idx + 1 - Len(w) + k])

\* the role a selector of SelectorKeys names, by the words it contains
RoleNamed(selector) ==
  IF selector \in {"latency_p95", "tx_err_latency"} THEN "Latency"
  ELSE IF selector \in {"loss_rate", "retry_rate"} THEN "TxErr"
  ELSE "RSSI"

\* C22: for structured samples the role series are resolved sample by sample:
\* magnitude = rssi_dBm, else rx_power_dBm, else rsrp_dBm, else -60; latency =
\* latency_p95, else 20; error rate = loss_rate, else retry_rate, else 0; a
\* fallback is taken only for an absent field, a present 0 is used as is.
C22_RoleFallbackChains ==
  \A idx \in Done :
    (Returned(idx) /\ fullData.isObject) =>
      IF riskMode = "single"
      THEN /\ HoldsRoleValues(Windows(idx).long, RoleNamed(primaryKey), idx)
           /\ HoldsRoleValues(Windows(idx).mid, RoleNamed(primaryKey), idx)
           /\ HoldsRoleValues(Windows(idx).current, RoleNamed(primaryKey), idx)
      ELSE \A name \in SignalNames :
             /\ HoldsRoleValues(Windows(idx)[name].long, name, idx)
             /\ HoldsRoleValues(Windows(idx)[name].mid, name, idx)
             /\ HoldsRoleValues(Windows(idx)[name].current, name, idx)

C22_Witness ==
  \E idx \in Done :
    /\ riskMode = "multi"
    /\ Returned(idx)
    /\ Windows(idx)["RSSI"].long = <<-62, 0, -61>>
    /\ Windows(idx)["Latency"].long = <<71, 0, 31>>
    /\ Windows(idx)["TxErr"].long = <<1, 0, 2>>
    /\ fullData.items[2].rx_power_dBm = Some(-61)
    /\ fullData.items[2].retry_rate = Some(2)

\* the window w ends at position idx and holds the supplied numbers
HoldsSupplied(w, idx) ==
  /\ w # <<>>
  /\ \A k \in 1..Len(w) : w[k] = fullData.items[idx + 1 - Len(w) + k]

\* the window w holds zeros only
HoldsZeros(w) == w # <<>> /\ \A k \in 1..Len(w) : w[k] = 0

CurrentLatency(idx) == RoleValue("Latency", fullData.items[idx + 1])

\* 1 iff the latency is above 30
Above30(lat) == IF lat > 30 THEN 1 ELSE 0

\* 1 iff the latency is below 0 or above 70
Outside0To70(lat) == IF lat < 0 \/ lat > 70 THEN 1 ELSE 0

\* 0.02 * b for b in {0, 1}
BoundaryTerm(b) == Num(0, 20000 * b)

\* C24: on structured samples the riskScore of analyzePoint is the same for
\* every selector (the three sub-results of a multi-signal result carry one
\* riskScore r), and the multi-signal riskScore is r + 0.02 * (b30 - b70),
\* b30 = 1 iff the current latency > 30, b70 = 1 iff it is < 0 or > 70: equal
\* to r for a latency in [0, 30] or above 70, higher by 0.02 in (30, 70].
C24_RiskAcrossSelectors ==
  \A idx \in Done :
    (Returned(idx) /\ fullData.isObject) =>
      LET lat == CurrentLatency(idx)
          r   == analyzePoint(fullData, idx, windowLong, windowMid, windowShort,
                              "rssi_dBm").riskScore
      IN  IF riskMode = "single"
          THEN Result(idx).riskScore = r
          ELSE /\ \A name \in SignalNames : Result(idx).signals[name].riskScore = r
               /\ NumAdd(Result(idx).riskScore, BoundaryTerm(Outside0To70(lat)))
                    = NumAdd(r, BoundaryTerm(Above30(lat)))
               /\ (0 <= lat /\ lat <= 30) \/ lat > 70 => Result(idx).riskScore = r
               /\ (30 < lat /\ lat <= 70) =>
                    Result(idx).riskScore = NumAdd(r, Num(0, 20000))

C24_Witness ==
  \E i \in Done, j \in Done :
    /\ riskMode = "multi"
    /\ Returned(i) /\ Returned(j)
    /\ CurrentLatency(i) = 31
    /\ Result(i).riskScore = NumAdd(Result(i).signals["TxErr"].riskScore, Num(0, 20000))
    /\ CurrentLatency(j) = -1
    /\ Result(j).signals["Latency"].riskScore = NumAdd(Result(j).riskScore, Num(0, 20000))

\* a number in units of its last kept digit
Units(x) == x.i * Unit + x.f

\* C25: in analyzePoint with 1 <= shortSize <= longSize the short window is a
\* suffix of the long one, so with S = shortSize and N = min(longSize,
\* currentIndex + 1) every series gives driftScore^2 * S * N <= (N - S)(N - 1);
\* at the first analysable index (currentIndex = shortSize, long window of
\* S + 1 samples) driftScore < 1 and driftStatus is STABLE, and driftScore = 0
\* when the long window is clipped to the short window's length.
C25_DriftBoundedByLengths ==
  \A idx \in Done :
    (Returned(idx) /\ 1 <= windowShort /\ windowShort <= windowLong) =>
      LET S == windowShort
          N == Min2(windowLong, idx + 1)
          k == Result(idx).driftScore
      IN  /\ Len(Windows(idx).short) = S /\ Len(Windows(idx).long) = N
          /\ Units(k) <= SqrtUnits((N - S) * (N - 1), S * N)
          /\ (idx = S /\ N = S + 1) =>
               NumLT(k, NumInt(1)) /\ Result(idx).driftStatus = "STABLE"
          /\ N = S => k = NumInt(0)

C25_Witness ==
  \E idx \in Done :
    /\ Returned(idx)
    /\ windowShort = 2 /\ windowLong = MaxDriftLen /\ idx = 3
    /\ Windows(idx).long = <<0, 0, 31, 31>>
    /\ Units(Result(idx).driftScore) = SqrtUnits(2 * 3, 2 * 4)
    /\ Result(idx).driftScore = Num(0, 866025)

\* 1 - sqrt(2)/2 = 0.292893..., cut after the last kept digit
StabilityFloor == Num(0, Unit - SqrtUnits(1, 2) - 1)

TargetValue(role, pos) ==
  IF fullData.isObject THEN RoleValue(role, fullData.items[pos + 1])
  ELSE IF role = "TxErr" THEN 0
  ELSE fullData.items[pos + 1]

\* the record r, analysed at idx for the role, has k3 = 1 and boundaryStatus
\* YES if the current target value is above 30, else k3 = 0 and NO
IsBoundaryOfCurrent(r, role, idx) ==
  IF TargetValue(role, idx) > 30
  THEN r.k3 = 1 /\ r.boundaryStatus = "YES"
  ELSE r.k3 = 0 /\ r.boundaryStatus = "NO"

\* C27: in every KernelResult analyzePoint produces k3 is 0 or 1: the boundary
\* indicator sees the single current sample, so its derivative limit never
\* triggers, and k3 = 1 (boundaryStatus YES) iff the current value of the
\* target series is strictly above 30, whatever the selector, the window
\* lengths and the earlier samples.
C27_BoundaryOfCurrentSample ==
  \A idx \in Done :
    Returned(idx) =>
      IF riskMode = "single"
      THEN IsBoundaryOfCurrent(Result(idx), RoleNamed(primaryKey), idx)
      ELSE \A name \in SignalNames :
             IsBoundaryOfCurrent(Result(idx).signals[name], name, idx)

C27_Witness ==
  \E i \in Done, j \in Done :
    /\ riskMode = "single" /\ primaryKey = "tx_err_latency"
    /\ Returned(i) /\ Returned(j)
    /\ j = i + 1
    /\ TargetValue("Latency", i) = 71 /\ Result(i).k3 = 1
    /\ TargetValue("Latency", j) = 0 /\ Result(j).k3 = 0

\* the positions of the longest of the three windows ending at idx
LongestWindow(idx) ==
  (Max2(0, idx - Max2(windowLong, Max2(windowMid, windowShort)) + 1))..idx

\* the role's series is constant over the longest window ending at idx
IsConstantRole(role, idx) ==
  \A pos \in LongestWindow(idx) : TargetValue(role, pos) = TargetValue(role, idx)

\* the record r has no drift, full stability and no oscillation
IsQuiet(r) == r.k1 = NumInt(0) /\ r.k2 = NumInt(1) /\ r.k4 = NumInt(0)

\* no sample of the longest window has a latency or an error-rate field
LatencyAndErrorAbsent(idx) ==
  \A pos \in LongestWindow(idx) :
    LET d == fullData.items[pos + 1]
    IN  d.latency_p95 = Null /\ d.loss_rate = Null /\ d.retry_rate = Null

\* 0.30 * (1 - k2) + 0.05 * k1 of the record r
MagnitudeRisk(r) ==
  NumAdd(NumTimes(30, 100, NumSub(NumInt(1), r.k2)), NumTimes(5, 100, r.k1))

AcrossSignals == {"driftScore", "stabilityScore", "riskScore", "overallRisk", "signals"}

\* the fields a multi-signal result takes over from one sub-result
TakenOver ==
  {"k1", "k2", "k3", "k4", "driftStatus", "stabilityStatus", "boundaryStatus",
   "oscillationLevel", "meanLong", "meanMid", "meanShort"}

\* C29: in a result of analyzeMultiSignalPoint only driftScore, stabilityScore,
\* riskScore, overallRisk and signals are computed across signals; every other
\* top-level field equals that field of the RSSI sub-result.  So, unlike a
\* single-signal result (driftScore = k1, stabilityScore = k2), its driftStatus
\* and stabilityStatus are the classes of the RSSI signal's k1 and k2, not of
\* the averaged driftScore and stabilityScore beside them.
C29_MultiTopLevelIsRssi ==
  \A idx \in Done :
    Returned(idx) =>
      LET r == Result(idx)
      IN  IF riskMode = "single"
          THEN /\ r.driftScore = r.k1 /\ r.stabilityScore = r.k2
               /\ DOMAIN r = TakenOver \cup (AcrossSignals \ {"signals"})
          ELSE /\ DOMAIN r = TakenOver \cup AcrossSignals
               /\ \A field \in TakenOver : r[field] = r.signals["RSSI"][field]
               /\ IsDriftClass(r.driftStatus, r.signals["RSSI"].k1)
               /\ IsStabilityClass(r.stabilityStatus, r.signals["RSSI"].k2)

C29_Witness ==
  \E idx \in Done :
    /\ riskMode = "multi"
    /\ Returned(idx)
    /\ Result(idx).driftScore # Result(idx).k1
    /\ Result(idx).stabilityScore # Result(idx).k2
    /\ Result(idx).signals["Latency"].k3 = 1 /\ Result(idx).k3 = 0
    /\ Result(idx).meanLong # Result(idx).signals["Latency"].meanLong
    /\ ~IsDriftClass(Result(idx).driftStatus, Result(idx).driftScore)

NonNegative(x) == NumLE(NumInt(0), x)

\* the indicators of one role series that enter the weighted sum
TermsInRange(series, idx) ==
  LET w == getWindows(series, idx, windowLong, windowMid, windowShort)
  IN  /\ NumLE(calculateK2Stability(w.mid), NumInt(1))
      /\ NonNegative(calculateK1Drift(w.short, w.long))
      /\ calculateK3Boundary(w.current, Some(0), Some(70), Some(30)) >= 0
      /\ NonNegative(calculateK4OscillationDynamic(w.short, w.long))

====
